---- MODULE Spec2Model ----
(***************************************************************************)
(* Model of the pro-feature CSV -> Strapi synchroniser: main/processCsv    *)
(* (the CLI entry and the row/locale reconciler) driving the three calls   *)
(* of strapiClient.ts against a remote "pro-features" collection.          *)
(*                                                                         *)
(* The CSV is held as csv-parse delivers it: a header and data lines whose *)
(* cells are already trimmed.  One action is one straight-line stretch of  *)
(* processCsv between two loop heads; the program is single threaded, so   *)
(* the remote calls of one stretch are taken together with their outcome.  *)
(***************************************************************************)
EXTENDS Integers, Sequences, FiniteSets, TLC

VARIABLES
    header,      \* the CSV header line, a sequence of column names
    lines,       \* the CSV data lines, each a sequence of cells (one per column)
    pc,          \* position in main/processCsv: "start", "rows", "locales", "done"
    rowIdx,      \* index of the row the outer for-loop is at (1-based)
    locIdx,      \* index into otherLocales the inner for-loop is at (1-based)
    documentId,  \* the local `documentId` of the row being processed
    report,      \* the SyncReport accumulator
    reportFile,  \* reports written to disk by this run: <<>> or <<report>>
    log,         \* top-level log lines of this run (fatal errors, warning, summary)
    exitCode,    \* process exit code; -1 while the process runs
    store,       \* the remote collection: a sequence of ProFeature records
    calls,       \* history of the remote calls of this run
    run,         \* 1 for the first run over the CSV, 2 for the second
    prev         \* the report accumulated by the first run: <<>> or <<report>>

vars == <<header, lines, pc, rowIdx, locIdx, documentId, report, reportFile,
          log, exitCode, store, calls, run, prev>>

-----------------------------------------------------------------------------
(* Bounds and input domains *)

MaxRows == 2

FeatureIds == {"F1", "F2"}
Names == {"n"}

\* Column layouts of the single-run specification: too few columns, a first
\* column that is not feature_id, no additional locale, two additional locales.
Headers ==
    { <<"feature_id">>, <<"id", "en">>, <<"feature_id", "en">>,
      <<"feature_id", "en", "vi", "fr">> }

\* Column layouts of the two-run specification.
HeadersTwice == { <<"id", "en">>, <<"feature_id", "en", "vi">> }

CellDomain(col) ==
    IF col = "feature_id" THEN FeatureIds \cup {""} ELSE Names \cup {""}

LinesOf(h) ==
    { l \in [1..Len(h) -> FeatureIds \cup Names \cup {""}] :
        \A k \in 1..Len(h) : l[k] \in CellDomain(h[k]) }

FilesOf(h) == UNION { [1..n -> LinesOf(h)] : n \in 0..MaxRows }

-----------------------------------------------------------------------------
(* CSV parsing: parse(csvContent, {columns: true, skip_empty_lines: true}) *)

\* A line without any character: it has a single, empty field.
IsEmptyLine(l) == Len(l) = 1 /\ l[1] = ""

\* The records csv-parse returns: the data lines, empty lines dropped.
parse(ls) == SelectSeq(ls, LAMBDA l : ~IsEmptyLine(l))

\* row[col]: the cell under column `col`, "" (undefined, falsy) without it.
Cell(h, row, col) ==
    IF \E k \in 1..Len(h) : h[k] = col
    THEN row[CHOOSE k \in 1..Len(h) : h[k] = col]
    ELSE ""

NeverFalsy(c) == FALSE

\* `!value` on a cell
Falsy(c) == c = ""

\* headers.slice(2)
otherLocalesOf(h) == SubSeq(h, 3, Len(h))

HeaderMalformedNoNameCheck(h) == Len(h) < 2

\* headers.length < 2 || headers[0] !== 'feature_id'
HeaderMalformed(h) == Len(h) < 2 \/ h[1] # "feature_id"

NoRecordsOffByOne(records) == Len(records) <= 1

\* records.length === 0
NoRecords(records) == Len(records) = 0

-----------------------------------------------------------------------------
(* The remote collection behind strapiClient.ts *)

NoDoc == [documentId |-> 0, feature_id |-> "", name |-> "", locale |-> ""]

Matches(st, fid) == { k \in 1..Len(st) : st[k].feature_id = fid }

Min(S) == CHOOSE x \in S : \A y \in S : x <= y

findNothing(st, fid) == NoDoc

\* GET /pro-features?filters[feature_id][$eq]=fid&pagination[pageSize]=1:
\* res.data.data[0] ?? null
findDocumentByFeatureId(st, fid) ==
    IF Matches(st, fid) = {} THEN NoDoc ELSE st[Min(Matches(st, fid))]

NextDocumentId(st) ==
    1 + Cardinality({ st[k].documentId : k \in 1..Len(st) })

\* POST /pro-features {data}: the record the remote creates and returns
createBaseDocument(st, data) ==
    [documentId |-> NextDocumentId(st), feature_id |-> data.feature_id,
     name |-> data.name, locale |-> data.locale]

Variant(st, doc, loc) ==
    { k \in 1..Len(st) : st[k].documentId = doc /\ st[k].locale = loc }

\* PUT /pro-features/{documentId}?locale=loc {data: {name}}: the record the
\* remote returns, the locale variant of the document carrying the new name
upsertLocaleVersion(st, doc, loc, data) ==
    LET any == st[Min({ k \in 1..Len(st) : st[k].documentId = doc })]
    IN  [documentId |-> doc, feature_id |-> any.feature_id,
         name |-> data.name, locale |-> loc]

\* The collection after a successful PUT: the variant overwritten, or added.
StorePut(st, rec) ==
    IF Variant(st, rec.documentId, rec.locale) = {}
    THEN Append(st, rec)
    ELSE [k \in 1..Len(st) |->
            IF k \in Variant(st, rec.documentId, rec.locale) THEN rec ELSE st[k]]

\* The errors a rejected or failed request raises (axios errors).
RemoteErrors ==
    { [response |-> TRUE, name |-> "ValidationError", message |-> "invalid"] }

\* formatError: "<name>: <message>" of a structured error body, else the
\* error's own message
formatError(err) ==
    IF err.response THEN <<err.name, err.message>> ELSE <<err.message>>

-----------------------------------------------------------------------------
(* The report and its entries.  rowIdx is history: the row an entry stems  *)
(* from (ReportEntrySuccess carries no row of its own).                    *)

BlankReport ==
    [defaultLocale |-> "", otherLocales |-> <<>>, processedRows |-> 0,
     successes |-> <<>>, failures |-> <<>>]

NewReport(h) ==
    [defaultLocale |-> h[2], otherLocales |-> otherLocalesOf(h),
     processedRows |-> 0, successes |-> <<>>, failures |-> <<>>]

SuccessEntry(fid, loc, act, doc, nm, r) ==
    [featureId |-> fid, locale |-> loc, action |-> act, documentId |-> doc,
     name |-> nm, rowIdx |-> r]

FailureEntry(fid, loc, act, err, row, r) ==
    [featureId |-> fid, locale |-> loc, action |-> act, error |-> err,
     row |-> row, rowIdx |-> r]

Call(op, r, loc, ok) == [op |-> op, rowIdx |-> r, locale |-> loc, ok |-> ok]

LogLine(level, msg, counts) == [level |-> level, msg |-> msg, counts |-> counts]

DropBaseFailure(failures, e) == failures

\* report.failures.push({... action: 'create-base' ...}) of the base catch
RecordBaseFailure(failures, e) == Append(failures, e)

FallThroughToLocales(r) == [pc |-> "locales", rowIdx |-> r, locIdx |-> 1]

\* `continue` of the base catch: on to the next row, the locale loop skipped
AfterBaseFailure(r) == [pc |-> "rows", rowIdx |-> r + 1, locIdx |-> 1]

processedRowsCountingFailure(n) == n + 1

\* processedRows when the base catch leaves the row: line 236 is not reached
processedRowsAfterBaseFailure(n) == n

BreakLocaleLoop(j, n) == n + 1

\* the locale catch swallows the error: the inner loop goes on with the next
\* of the n additional locales
AfterLocaleFailure(j, n) == j + 1

-----------------------------------------------------------------------------
(* State after construction *)

InitRun ==
    /\ pc = "start"
    /\ rowIdx = 1
    /\ locIdx = 1
    /\ documentId = 0
    /\ report = BlankReport
    /\ reportFile = <<>>
    /\ log = <<>>
    /\ exitCode = -1
    /\ store = <<>>
    /\ calls = <<>>
    /\ run = 1
    /\ prev = <<>>

Init ==
    /\ header \in Headers
    /\ lines \in FilesOf(header)
    /\ InitRun

InitTwice ==
    /\ header \in HeadersTwice
    /\ lines \in FilesOf(header)
    /\ InitRun

records == parse(lines)
row == records[rowIdx]
baseFeatureId == Cell(header, row, "feature_id")
baseName == Cell(header, row, report.defaultLocale)
locale == report.otherLocales[locIdx]
localizedName == Cell(header, row, locale)

Exit(code, line) ==
    /\ pc' = "done"
    /\ exitCode' = code
    /\ log' = Append(log, line)

-----------------------------------------------------------------------------
(* main and the head of processCsv *)

\* main: no CSV path on the command line
MissingArgument ==
    /\ pc = "start"
    /\ Exit(1, LogLine("error", "Usage", <<>>))
    /\ UNCHANGED <<header, lines, rowIdx, locIdx, documentId, report,
                   reportFile, store, calls, run, prev>>

\* processCsv: the CSV file does not exist
FileNotFound ==
    /\ pc = "start"
    /\ Exit(1, LogLine("error", "CSV file not found", <<>>))
    /\ UNCHANGED <<header, lines, rowIdx, locIdx, documentId, report,
                   reportFile, store, calls, run, prev>>

\* processCsv: the CSV holds no record; warn and return, main resolves
NoRows ==
    /\ pc = "start"
    /\ NoRecords(records)
    /\ Exit(0, LogLine("warn", "CSV has no rows.", <<>>))
    /\ UNCHANGED <<header, lines, rowIdx, locIdx, documentId, report,
                   reportFile, store, calls, run, prev>>

\* processCsv: the keys of the first record are not feature_id,<locale>,...
BadHeader ==
    /\ pc = "start"
    /\ ~NoRecords(records)
    /\ HeaderMalformed(header)
    /\ Exit(1, LogLine("error", "CSV must have at least columns", <<>>))
    /\ UNCHANGED <<header, lines, rowIdx, locIdx, documentId, report,
                   reportFile, store, calls, run, prev>>

\* processCsv: the report is set up and the row loop entered
BeginSync ==
    /\ pc = "start"
    /\ ~NoRecords(records)
    /\ ~HeaderMalformed(header)
    /\ report' = NewReport(header)
    /\ pc' = "rows"
    /\ rowIdx' = 1
    /\ UNCHANGED <<header, lines, locIdx, documentId, reportFile, log,
                   exitCode, store, calls, run, prev>>

-----------------------------------------------------------------------------
(* The row loop: presence checks and the base step *)

AtRow == pc = "rows" /\ rowIdx <= Len(records)

ValidRow == AtRow /\ ~Falsy(baseFeatureId) /\ ~Falsy(baseName)

existing == findDocumentByFeatureId(store, baseFeatureId)

BaseFailed(err) ==
    /\ report' = [report EXCEPT
         !.failures = RecordBaseFailure(@,
             FailureEntry(baseFeatureId, report.defaultLocale, "create-base",
                          formatError(err), row, rowIdx)),
         !.processedRows = processedRowsAfterBaseFailure(@)]
    /\ pc' = AfterBaseFailure(rowIdx).pc
    /\ rowIdx' = AfterBaseFailure(rowIdx).rowIdx
    /\ locIdx' = AfterBaseFailure(rowIdx).locIdx

\* the row has no feature_id
MissingFeatureId ==
    /\ AtRow
    /\ Falsy(baseFeatureId)
    /\ report' = [report EXCEPT !.failures = Append(@,
           FailureEntry("", report.defaultLocale, "create-base",
                        <<"Missing feature_id">>, row, rowIdx))]
    /\ rowIdx' = rowIdx + 1
    /\ UNCHANGED <<header, lines, pc, locIdx, documentId, reportFile, log,
                   exitCode, store, calls, run, prev>>

\* the row has no name for the default locale
MissingDefaultName ==
    /\ AtRow
    /\ ~Falsy(baseFeatureId)
    /\ Falsy(baseName)
    /\ report' = [report EXCEPT !.failures = Append(@,
           FailureEntry(baseFeatureId, report.defaultLocale, "create-base",
                        <<"Missing name for default locale">>, row, rowIdx))]
    /\ rowIdx' = rowIdx + 1
    /\ UNCHANGED <<header, lines, pc, locIdx, documentId, reportFile, log,
                   exitCode, store, calls, run, prev>>

\* findDocumentByFeatureId throws
FindFails ==
    /\ ValidRow
    /\ \E err \in RemoteErrors : BaseFailed(err)
    /\ calls' = Append(calls, Call("find", rowIdx, "", FALSE))
    /\ UNCHANGED <<header, lines, documentId, reportFile, log, exitCode,
                   store, run, prev>>

\* nothing found, createBaseDocument succeeds
CreateBaseOk ==
    /\ ValidRow
    /\ existing = NoDoc
    /\ LET baseDoc == createBaseDocument(store,
                         [feature_id |-> baseFeatureId, name |-> baseName,
                          locale |-> report.defaultLocale])
       IN  /\ store' = Append(store, baseDoc)
           /\ documentId' = baseDoc.documentId
           /\ report' = [report EXCEPT !.successes = Append(@,
                  SuccessEntry(baseFeatureId, report.defaultLocale,
                               "create-base", baseDoc.documentId,
                               baseDoc.name, rowIdx))]
    /\ calls' = calls \o <<Call("find", rowIdx, "", TRUE),
                           Call("create", rowIdx, report.defaultLocale, TRUE)>>
    /\ pc' = "locales"
    /\ locIdx' = 1
    /\ UNCHANGED <<header, lines, rowIdx, reportFile, log, exitCode, run, prev>>

\* nothing found, createBaseDocument throws
CreateBaseFails ==
    /\ ValidRow
    /\ existing = NoDoc
    /\ \E err \in RemoteErrors : BaseFailed(err)
    /\ calls' = calls \o <<Call("find", rowIdx, "", TRUE),
                           Call("create", rowIdx, report.defaultLocale, FALSE)>>
    /\ UNCHANGED <<header, lines, documentId, reportFile, log, exitCode,
                   store, run, prev>>

\* a record found, upsertLocaleVersion of the default locale succeeds
UpdateBaseOk ==
    /\ ValidRow
    /\ existing # NoDoc
    /\ LET updatedBase == upsertLocaleVersion(store, existing.documentId,
                              report.defaultLocale, [name |-> baseName])
       IN  /\ store' = StorePut(store, updatedBase)
           /\ report' = [report EXCEPT !.successes = Append(@,
                  SuccessEntry(baseFeatureId, report.defaultLocale,
                               "update-base", existing.documentId,
                               updatedBase.name, rowIdx))]
    /\ documentId' = existing.documentId
    /\ calls' = calls \o <<Call("find", rowIdx, "", TRUE),
                           Call("upsert", rowIdx, report.defaultLocale, TRUE)>>
    /\ pc' = "locales"
    /\ locIdx' = 1
    /\ UNCHANGED <<header, lines, rowIdx, reportFile, log, exitCode, run, prev>>

\* a record found, upsertLocaleVersion of the default locale throws
UpdateBaseFails ==
    /\ ValidRow
    /\ existing # NoDoc
    /\ \E err \in RemoteErrors : BaseFailed(err)
    /\ documentId' = existing.documentId
    /\ calls' = calls \o <<Call("find", rowIdx, "", TRUE),
                           Call("upsert", rowIdx, report.defaultLocale, FALSE)>>
    /\ UNCHANGED <<header, lines, reportFile, log, exitCode, store, run, prev>>

-----------------------------------------------------------------------------
(* The locale loop of one row *)

AtLocale == pc = "locales" /\ locIdx <= Len(report.otherLocales)

DocumentKnown == \E k \in 1..Len(store) : store[k].documentId = documentId

\* the cell of this locale is empty: skipped, nothing recorded
LocaleEmpty ==
    /\ AtLocale
    /\ Falsy(localizedName)
    /\ locIdx' = locIdx + 1
    /\ UNCHANGED <<header, lines, pc, rowIdx, documentId, report, reportFile,
                   log, exitCode, store, calls, run, prev>>

\* upsertLocaleVersion of an additional locale succeeds
LocaleOk ==
    /\ AtLocale
    /\ ~Falsy(localizedName)
    /\ DocumentKnown
    /\ LET localized == upsertLocaleVersion(store, documentId, locale,
                                            [name |-> localizedName])
       IN  /\ store' = StorePut(store, localized)
           /\ report' = [report EXCEPT !.successes = Append(@,
                  SuccessEntry(baseFeatureId, locale, "upsert-locale",
                               documentId, localized.name, rowIdx))]
    /\ calls' = Append(calls, Call("upsert", rowIdx, locale, TRUE))
    /\ locIdx' = locIdx + 1
    /\ UNCHANGED <<header, lines, pc, rowIdx, documentId, reportFile, log,
                   exitCode, run, prev>>

\* upsertLocaleVersion of an additional locale throws
LocaleFails ==
    /\ AtLocale
    /\ ~Falsy(localizedName)
    /\ \E err \in RemoteErrors :
         report' = [report EXCEPT !.failures = Append(@,
             FailureEntry(baseFeatureId, locale, "upsert-locale",
                          formatError(err), row, rowIdx))]
    /\ calls' = Append(calls, Call("upsert", rowIdx, locale, FALSE))
    /\ locIdx' = AfterLocaleFailure(locIdx, Len(report.otherLocales))
    /\ UNCHANGED <<header, lines, pc, rowIdx, documentId, reportFile, log,
                   exitCode, store, run, prev>>

\* the locale loop is through: report.processedRows += 1, next row
EndRow ==
    /\ pc = "locales"
    /\ locIdx > Len(report.otherLocales)
    /\ report' = [report EXCEPT !.processedRows = @ + 1]
    /\ pc' = "rows"
    /\ rowIdx' = rowIdx + 1
    /\ locIdx' = 1
    /\ UNCHANGED <<header, lines, documentId, reportFile, log, exitCode,
                   store, calls, run, prev>>

\* the row loop is through: the report is written and the summary logged
WriteReport ==
    /\ pc = "rows"
    /\ rowIdx > Len(records)
    /\ reportFile' = <<report>>
    /\ Exit(0, LogLine("info", "Summary",
                       <<report.processedRows, Len(report.successes),
                         Len(report.failures)>>))
    /\ UNCHANGED <<header, lines, rowIdx, locIdx, documentId, report, store,
                   calls, run, prev>>

\* the same CSV is synchronised a second time against the same remote
RunAgain ==
    /\ pc = "done"
    /\ run = 1
    /\ run' = 2
    /\ prev' = <<report>>
    /\ pc' = "start"
    /\ rowIdx' = 1
    /\ locIdx' = 1
    /\ documentId' = 0
    /\ report' = BlankReport
    /\ reportFile' = <<>>
    /\ log' = <<>>
    /\ exitCode' = -1
    /\ calls' = <<>>
    /\ UNCHANGED <<header, lines, store>>

Next ==
    \/ MissingArgument
    \/ FileNotFound
    \/ NoRows
    \/ BadHeader
    \/ BeginSync
    \/ MissingFeatureId
    \/ MissingDefaultName
    \/ FindFails
    \/ CreateBaseOk
    \/ CreateBaseFails
    \/ UpdateBaseOk
    \/ UpdateBaseFails
    \/ LocaleEmpty
    \/ LocaleOk
    \/ LocaleFails
    \/ EndRow
    \/ WriteReport

NextTwice == Next \/ RunAgain

Spec == Init /\ [][Next]_vars

SpecTwice == InitTwice /\ [][NextTwice]_vars

-----------------------------------------------------------------------------
(* Vocabulary of the properties *)

Rows == 1..Len(records)

\* the feature_id cell and the default-locale cell of record r
FeatureIdOf(r) == Cell(header, records[r], "feature_id")
DefaultNameOf(r) == Cell(header, records[r], header[2])

\* record r passes both presence checks
RowValid(r) == FeatureIdOf(r) # "" /\ DefaultNameOf(r) # ""

\* the row loop has left record r behind
RowFinished(r) == rowIdx > r

BaseActions == {"create-base", "update-base"}

SeqRange(s) == { s[k] : k \in 1..Len(s) }

Count(s, P(_)) == Cardinality({ k \in 1..Len(s) : P(s[k]) })

\* number of report entries, successes and failures together, satisfying P
Entries(rep, P(_)) == Count(rep.successes, P) + Count(rep.failures, P)

IsBaseEntryOf(rep, e, r) ==
    e.rowIdx = r /\ e.locale = rep.defaultLocale /\ e.action \in BaseActions

IsBaseCall(c, r) ==
    /\ c.rowIdx = r
    /\ \/ c.op \in {"find", "create"}
       \/ c.op = "upsert" /\ c.locale = report.defaultLocale

IsLocaleCall(c, r) ==
    c.rowIdx = r /\ c.op = "upsert" /\ c.locale # report.defaultLocale

\* the find, the create or the default-locale update of record r threw
BaseStepFailed(r) == \E c \in SeqRange(calls) : IsBaseCall(c, r) /\ ~c.ok

\* the create or the default-locale update of record r went through
BaseStepSucceeded(r) ==
    \E c \in SeqRange(calls) : IsBaseCall(c, r) /\ c.op # "find" /\ c.ok

SameIdElsewhere(r) ==
    \E q \in Rows : q # r /\ FeatureIdOf(q) = FeatureIdOf(r)

ReportWritten == pc = "done" /\ reportFile # <<>>

-----------------------------------------------------------------------------
\* C1: every record with a non-empty feature_id and a non-empty default-locale
\* name gets exactly one report entry (success or failure) for the default
\* locale with action create-base or update-base, whatever the find, the
\* create and the update answer.
C1_OneBaseEntryPerValidRow ==
    \A r \in Rows :
        RowFinished(r) /\ RowValid(r) =>
            Entries(report, LAMBDA e : IsBaseEntryOf(report, e, r)) = 1

\* a finished run in which the find of one record threw and the base step of
\* another went through
C1_Witness ==
    /\ ReportWritten
    /\ \E r \in Rows : RowValid(r) /\ BaseStepFailed(r)
    /\ \E r \in Rows : RowValid(r) /\ BaseStepSucceeded(r)
    /\ \E c \in SeqRange(calls) : c.op = "find" /\ ~c.ok

\* C2: when the record is found remotely and the default-locale update fails,
\* the failure entry of that row has action update-base and no additional
\* locale of the row is attempted.
C2_UpdateFailureIsUpdateBase ==
    \A r \in Rows :
        (\E c \in SeqRange(calls) :
            c.rowIdx = r /\ c.op = "upsert" /\ ~c.ok
                /\ c.locale = report.defaultLocale)
        => /\ \A e \in SeqRange(report.failures) :
                e.rowIdx = r => e.action = "update-base"
           /\ \A c \in SeqRange(calls) : ~IsLocaleCall(c, r)

\* C3 as claimed: processedRows counts every record that passes both presence
\* checks, whether its base step succeeded or failed.
C3_ProcessedCountsValidRows ==
    ReportWritten =>
        report.processedRows = Cardinality({ r \in Rows : RowValid(r) })

\* C3 as amended: processedRows counts the records that pass both presence
\* checks and whose base step succeeded, whatever their locale upserts did.
C3_ProcessedCountsBaseSuccesses ==
    ReportWritten =>
        report.processedRows =
            Cardinality({ r \in Rows : RowValid(r) /\ BaseStepSucceeded(r) })

\* a finished run with a failed base step, a passed one and a failed locale
C3_Witness ==
    /\ ReportWritten
    /\ \E r \in Rows : RowValid(r) /\ BaseStepFailed(r)
    /\ \E r \in Rows : RowValid(r) /\ BaseStepSucceeded(r)
    /\ \E c \in SeqRange(calls) : c.op = "upsert" /\ ~c.ok
           /\ c.locale # report.defaultLocale
    /\ report.processedRows = 1

\* C4 as claimed: a failed base step leaves the report without any
\* upsert-locale entry for the row's featureId and issues no additional-locale
\* call for the row, also when several rows share the feature_id.
C4_NoLocaleEntryForFeatureId ==
    \A r \in Rows :
        ReportWritten /\ BaseStepFailed(r) =>
            /\ Entries(report, LAMBDA e :
                   e.action = "upsert-locale" /\ e.featureId = FeatureIdOf(r)) = 0
            /\ \A c \in SeqRange(calls) : ~IsLocaleCall(c, r)

\* C4 as amended: a failed base step leaves the report without any
\* upsert-locale entry stemming from that row and issues no additional-locale
\* call for it; the report holds none for the row's featureId either when no
\* other row carries the same feature_id.
C4_NoLocaleEntryForRow ==
    \A r \in Rows :
        BaseStepFailed(r) =>
            /\ Entries(report, LAMBDA e :
                   e.action = "upsert-locale" /\ e.rowIdx = r) = 0
            /\ \A c \in SeqRange(calls) : ~IsLocaleCall(c, r)
            /\ ~SameIdElsewhere(r) =>
                   Entries(report, LAMBDA e :
                       e.action = "upsert-locale"
                           /\ e.featureId = FeatureIdOf(r)) = 0

\* a finished run whose failed row has a non-empty additional locale cell
C4_Witness ==
    /\ ReportWritten
    /\ \E r \in Rows :
          /\ BaseStepFailed(r)
          /\ \E j \in 3..Len(header) : records[r][j] # ""
    /\ \E e \in SeqRange(report.successes) : e.action = "upsert-locale"

\* the additional locale columns whose cell is empty / filled in record r
AdditionalColumns == 3..Len(header)
EmptyLocales(r) == { header[j] : j \in { k \in AdditionalColumns : records[r][k] = "" } }
FilledLocales(r) == { header[j] : j \in { k \in AdditionalColumns : records[r][k] # "" } }

\* C5 as claimed: an empty additional-locale cell of a row leaves the report
\* without any entry for the (featureId, locale) pair and no remote call is
\* made for the pair, also when another row with the same feature_id has the
\* cell filled.
C5_NoEntryForEmptyCellPair ==
    \A r \in Rows : \A L \in EmptyLocales(r) :
        ReportWritten =>
            /\ Entries(report, LAMBDA e :
                   e.featureId = FeatureIdOf(r) /\ e.locale = L) = 0
            /\ \A c \in SeqRange(calls) :
                   ~(c.locale = L /\ FeatureIdOf(c.rowIdx) = FeatureIdOf(r))

\* C5 as amended: an empty additional-locale cell of a row yields no entry
\* stemming from that row for the locale and no remote call of that row for
\* it; the report holds no entry for the (featureId, locale) pair either when
\* no other row carries the same feature_id.
C5_NoEntryForEmptyCellOfRow ==
    \A r \in Rows : \A L \in EmptyLocales(r) :
        /\ Entries(report, LAMBDA e : e.rowIdx = r /\ e.locale = L) = 0
        /\ \A c \in SeqRange(calls) : ~(c.rowIdx = r /\ c.locale = L)
        /\ ~SameIdElsewhere(r) =>
               Entries(report, LAMBDA e :
                   e.featureId = FeatureIdOf(r) /\ e.locale = L) = 0

\* a finished run over a row whose base step went through, with one
\* additional locale empty and the other one upserted
C5_Witness ==
    /\ ReportWritten
    /\ \E r \in Rows :
          /\ BaseStepSucceeded(r)
          /\ EmptyLocales(r) # {}
          /\ \E c \in SeqRange(calls) : IsLocaleCall(c, r)

\* C6: every row whose base step succeeded gets exactly one upsert-locale
\* entry (success or failure) per additional locale with a non-empty cell,
\* whatever failed before it; a failed locale upsert stops neither the
\* remaining locales of the row nor the following rows.
C6_OneEntryPerFilledLocale ==
    \A r \in Rows :
        RowFinished(r) /\ BaseStepSucceeded(r) =>
            \A L \in FilledLocales(r) :
                Entries(report, LAMBDA e :
                    e.rowIdx = r /\ e.action = "upsert-locale" /\ e.locale = L) = 1

\* a finished run in which the first additional locale of the first row
\* failed, its second one was upserted and the second row was upserted too
C6_Witness ==
    /\ ReportWritten
    /\ Len(records) = 2
    /\ Len(header) = 4
    /\ \E e \in SeqRange(report.failures) :
          e.rowIdx = 1 /\ e.action = "upsert-locale" /\ e.locale = header[3]
    /\ \E e \in SeqRange(report.successes) :
          e.rowIdx = 1 /\ e.action = "upsert-locale" /\ e.locale = header[4]
    /\ \E e \in SeqRange(report.successes) :
          e.rowIdx = 2 /\ e.action = "upsert-locale"

\* the base step of record r went through in the first run
BaseSucceededBefore(r) ==
    /\ prev # <<>>
    /\ \E e \in SeqRange(prev[1].successes) : IsBaseEntryOf(prev[1], e, r)

\* C7: against a remote that keeps what was created and answers the find from
\* it, the second run over the same CSV records update-base (never
\* create-base) as the base entry of every row whose base step succeeded in
\* the first run.
C7_SecondRunUpdatesBase ==
    \A r \in Rows :
        /\ run = 2
        /\ RowFinished(r)
        /\ BaseSucceededBefore(r)
        /\ \E c \in SeqRange(calls) : c.rowIdx = r /\ c.op = "find" /\ c.ok
        => /\ Entries(report, LAMBDA e : IsBaseEntryOf(report, e, r)) = 1
           /\ Entries(report, LAMBDA e :
                  IsBaseEntryOf(report, e, r) /\ e.action # "update-base") = 0

\* the (featureId, locale) pairs the run wrote
WrittenPairs ==
    { <<e.featureId, e.locale>> : e \in SeqRange(report.successes) }

\* C8: after a run in which every remote call succeeds, the remote holds
\* exactly one record per (featureId, locale) pair the run wrote, and all
\* locale variants of one featureId carry the same documentId, also when the
\* CSV lists a feature_id in several rows.
C8_OneRecordPerPair ==
    ReportWritten /\ (\A c \in SeqRange(calls) : c.ok) =>
        /\ \A p \in WrittenPairs :
               Cardinality({ k \in 1..Len(store) :
                   store[k].feature_id = p[1] /\ store[k].locale = p[2] }) = 1
        /\ \A k1, k2 \in 1..Len(store) :
               store[k1].feature_id = store[k2].feature_id
                   /\ (\E p \in WrittenPairs : p[1] = store[k1].feature_id)
               => store[k1].documentId = store[k2].documentId

\* a second run without any failure over two rows sharing the feature_id,
\* with an additional locale written and a second document in the remote
C8_Witness ==
    /\ ReportWritten
    /\ run = 2
    /\ calls # <<>>
    /\ \A c \in SeqRange(calls) : c.ok
    /\ \E r \in Rows : RowValid(r) /\ SameIdElsewhere(r)
    /\ \E e \in SeqRange(report.successes) : e.action = "upsert-locale"
    /\ \E e \in SeqRange(report.successes) : e.action = "update-base"

\* the header has fewer than two columns or a first column other than
\* feature_id
HeaderBad == Len(header) < 2 \/ header[1] # "feature_id"

FatalEnd ==
    /\ exitCode = 1
    /\ log # <<>>
    /\ log[Len(log)].level = "error"
    /\ reportFile = <<>>

\* C9 as claimed: a CSV with such a header ends the run as a fatal error
\* (error logged, exit code 1, no report), for every number of data rows,
\* zero included.
C9_BadHeaderIsFatal ==
    HeaderBad =>
        /\ pc \in {"start", "done"}
        /\ pc = "done" => FatalEnd

\* C9 as amended: a CSV with such a header and at least one non-empty data
\* row ends the run as a fatal error (error logged, exit code 1, no report).
C9_BadHeaderWithRowsIsFatal ==
    HeaderBad /\ Len(records) >= 1 =>
        /\ pc \in {"start", "done"}
        /\ pc = "done" => FatalEnd

\* a run over a CSV with data rows stopped by the header check
C9_Witness ==
    /\ pc = "done"
    /\ HeaderBad
    /\ Len(records) >= 1
    /\ \E l \in SeqRange(log) : l.msg = "CSV must have at least columns"

\* the run hit one of the fatal cases: missing CLI argument, missing CSV
\* file, malformed CSV header
FatalCase ==
    \/ \E l \in SeqRange(log) : l.msg \in {"Usage", "CSV file not found"}
    \/ HeaderBad

SummaryEnd ==
    /\ reportFile = <<report>>
    /\ log # <<>>
    /\ log[Len(log)] = LogLine("info", "Summary",
           <<report.processedRows, Len(report.successes), Len(report.failures)>>)
    /\ exitCode = 0

\* C10 as claimed: every run that hits no fatal case ends by writing the
\* report and logging the summary with the three counts, with exit code 0,
\* also when remote calls fail and when the CSV has no data rows.
C10_NonFatalRunReports ==
    /\ pc = "done" /\ ~FatalCase => SummaryEnd
    /\ pc # "done" => ENABLED Next

\* C10 as amended: every run over a CSV with at least one non-empty data row
\* that hits no fatal case ends by writing the report and logging the summary
\* with the three counts, with exit code 0, also when remote calls fail; over
\* a CSV without data rows the run ends with exit code 0 without a report.
C10_NonFatalRunWithRowsReports ==
    /\ pc = "done" /\ ~FatalCase /\ Len(records) >= 1 => SummaryEnd
    /\ pc = "done" /\ ~FatalCase /\ Len(records) = 0 =>
           exitCode = 0 /\ reportFile = <<>>
    /\ pc # "done" => ENABLED Next

\* a run that ended with the summary although remote calls failed
C10_Witness ==
    /\ pc = "done"
    /\ ~FatalCase
    /\ SummaryEnd
    /\ \E c \in SeqRange(calls) : ~c.ok
    /\ report.failures # <<>>

====
